---- MODULE Spec2Model ----
(***************************************************************************)
(* A model of go-pty's Windows backend (src/pty_win.go) and of the shared  *)
(* interface (Pty, Child, the three sentinel errors).                      *)
(*                                                                         *)
(* The Go objects are records: p is the windowsPty, procs holds one entry  *)
(* per process created by CreateProcess together with the windowsChild     *)
(* that refers to it.  The kernel's view of the handles is kept apart from *)
(* the Go fields that store the handle values (kernel, released), so that  *)
(* a field naming a handle the kernel has already released is visible.     *)
(* ret is what the last completed call returned, with the OS calls that    *)
(* call issued.                                                            *)
(***************************************************************************)
EXTENDS Integers, Sequences, FiniteSets

VARIABLES
    p,          \* the windowsPty record
    kernel,     \* handle -> "open" | "closed": the kernel object behind it
    released,   \* handle -> number of times it was passed to a release call
    procs,      \* the processes created so far, each with its windowsChild
    attrLists,  \* attribute lists allocated and not yet deleted
    ret,        \* the result of the last completed call
    calls,      \* how many times TakeReader, TakeWriter and Close were called
    closePc,    \* where the caller stands inside Close
    drains,     \* the drain goroutines started by Close, each with its position
    outPipe,    \* bytes the console has written and nobody has read yet
    inPipe,     \* the messages written to the PTY input
    conWaiting, \* the console emitted a cursor query and blocks for the answer
    readerLog,  \* the chunks the reads on the taken reader returned
    emitted,    \* chunks the console has emitted
    gor         \* the goroutines calling at the same time, each with its position

vars == <<p, kernel, released, procs, attrLists, ret, calls, closePc, drains,
          outPipe, inPipe, conWaiting, readerLog, emitted, gor>>

ptyVars   == <<p, kernel, released, calls, closePc, drains>>
childVars == <<procs, attrLists>>
pipeVars  == <<outPipe, inPipe, conWaiting, readerLog, emitted>>

-----------------------------------------------------------------------------
(* Bounds of the model.                                                    *)

MaxCalls == 2    \* calls of TakeReader, of TakeWriter and of Close
MaxProcs == 2    \* processes created by SpawnCommand
MaxPipe  == 5    \* bytes pending in the output pipe
MaxEmit  == 2    \* chunks the console emits
MaxGoroutines == 2   \* goroutines that call at the same time

-----------------------------------------------------------------------------
(* Constants of the program.                                               *)

STILL_ACTIVE   == 259
KillExitCode   == 1
DrainBufSize   == 4096
CallerBufSize  == 8192

Nil            == "nil"           \* the nil error
NilPtr         == <<>>            \* a nil pointer
Ptr(obj)       == <<obj>>         \* a pointer to a Go object
InvalidHandle  == "InvalidHandle"
ErrNotFinished   == "ErrNotFinished"
ErrAlreadyTaken  == "ErrAlreadyTaken"
ErrAlreadyClosed == "ErrAlreadyClosed"
OsError          == "OsError"       \* an error of the windows package
EOF              == "io.EOF"

\* The handles NewPty leaves in the windowsPty.
hPCon     == "PCon"
hOutRead  == "stdout.Read"
hInWrite  == "stdin.Write"
PtyHandles == {hPCon, hOutRead, hInWrite}

\* uint16 -> int16, as int16(size.Cols) converts.
Int16(x) == IF x >= 32768 THEN x - 65536 ELSE x

Coord(size) == [X |-> Int16(size.Cols), Y |-> Int16(size.Rows)]

DefaultPtySize == [Rows |-> 24, Cols |-> 80, PixelWidth |-> 0, PixelHeight |-> 0]

\* The sizes callers pass: the default, one with pixel fields, and one whose
\* columns do not fit an int16.
Sizes == { DefaultPtySize,
           [Rows |-> 50, Cols |-> 132, PixelWidth |-> 640, PixelHeight |-> 480],
           [Rows |-> 30, Cols |-> 40000, PixelWidth |-> 0, PixelHeight |-> 0] }

\* The exit codes a child ends with by itself.
ExitCodes == {0, 3, STILL_ACTIVE}

\* The cursor-position request and the report Close's goroutine answers with.
Query == <<27, 91, 54, 110>>
Reply == <<27, 91, 50, 52, 59, 56, 48, 82>>
Other == <<120>>

NoRet == [op |-> "none", err |-> Nil, val |-> Nil, os |-> <<>>, child |-> 0]

\* child: the Child the call was made on, 0 for a call on the Pty.
Ret(op, err, val, os) ==
    [op |-> op, err |-> err, val |-> val, os |-> os, child |-> 0]

\* One OS call issued by an operation: the call and the handle value passed.
OsCall(name, h) == <<name, h>>

-----------------------------------------------------------------------------
(* NewPty: the state after construction.                                   *)

NewPty(size) ==
    [ PCon        |-> hPCon,
      PtySize     |-> size,
      Readable    |-> Ptr([read |-> hOutRead]),
      readHandle  |-> hOutRead,
      Writable    |-> Ptr([write |-> hInWrite]),
      writeHandle |-> hInWrite,
      closed      |-> FALSE ]

\* A goroutine that has not called yet: the call it makes, where it stands in
\* it, the Child it calls, the locals of the call and what it returned.
GoIdle == [ op |-> "none", pc |-> "idle", child |-> 0,
            slot |-> NilPtr,      \* the interface value the nil test read
            temp |-> NilPtr,      \* temp
            h    |-> Nil,         \* c.Proc as the InvalidHandle test read it
            code |-> 0, err |-> Nil ]

Init ==
    /\ p = NewPty(DefaultPtySize)
    /\ kernel = [h \in PtyHandles |-> "open"]
    /\ released = [h \in PtyHandles |-> 0]
    /\ procs = <<>>
    /\ attrLists = 0
    /\ ret = NoRet
    /\ calls = [TakeReader |-> 0, TakeWriter |-> 0, Close |-> 0]
    /\ closePc = "idle"
    /\ drains = <<>>
    /\ outPipe = <<>>
    /\ inPipe = <<>>
    /\ conWaiting = FALSE
    /\ readerLog = <<>>
    /\ emitted = 0
    /\ gor = [g \in 1..MaxGoroutines |-> GoIdle]

\* The caller's thread is between two calls.
Idle == closePc = "idle"

-----------------------------------------------------------------------------
(* windowsPty.Resize and windowsPty.GetSize                                *)

\* ResizePseudoConsole: rejected on a released console and on a coordinate
\* that is not positive.
ResizePseudoConsoleOk(h, coord) ==
    kernel[h] = "open" /\ coord.X > 0 /\ coord.Y > 0

\* A Resize that keeps only the rows and columns it passed to the console.
ResizeDropsPixels(size) ==
    /\ Idle
    /\ IF ResizePseudoConsoleOk(p.PCon, Coord(size))
       THEN /\ p' = [p EXCEPT !.PtySize = [size EXCEPT !.PixelWidth = 0,
                                                       !.PixelHeight = 0]]
            /\ ret' = Ret("Resize", Nil, size, <<OsCall("ResizePseudoConsole", p.PCon)>>)
       ELSE /\ p' = p
            /\ ret' = Ret("Resize", OsError, size, <<OsCall("ResizePseudoConsole", p.PCon)>>)
    /\ UNCHANGED <<gor, kernel, released, calls, closePc, drains, childVars, pipeVars>>

\* A Resize that stores the size before it looks at the console's answer.
ResizeStoresFirst(size) ==
    /\ Idle
    /\ p' = [p EXCEPT !.PtySize = size]
    /\ IF ResizePseudoConsoleOk(p.PCon, Coord(size))
       THEN ret' = Ret("Resize", Nil, size, <<OsCall("ResizePseudoConsole", p.PCon)>>)
       ELSE ret' = Ret("Resize", OsError, size, <<OsCall("ResizePseudoConsole", p.PCon)>>)
    /\ UNCHANGED <<gor, kernel, released, calls, closePc, drains, childVars, pipeVars>>

Resize(size) ==
    /\ Idle
    /\ IF ResizePseudoConsoleOk(p.PCon, Coord(size))
       THEN /\ p' = [p EXCEPT !.PtySize = size]
            /\ ret' = Ret("Resize", Nil, size, <<OsCall("ResizePseudoConsole", p.PCon)>>)
       ELSE /\ p' = p
            /\ ret' = Ret("Resize", OsError, size, <<OsCall("ResizePseudoConsole", p.PCon)>>)
    /\ UNCHANGED <<gor, kernel, released, calls, closePc, drains, childVars, pipeVars>>

GetSize ==
    /\ Idle
    /\ ret' = Ret("GetSize", Nil, p.PtySize, <<>>)
    /\ UNCHANGED <<gor, ptyVars, childVars, pipeVars>>

-----------------------------------------------------------------------------
(* windowsPty.TakeReader and windowsPty.TakeWriter                         *)

Bump(op) == [calls EXCEPT ![op] = @ + 1]

\* A TakeReader that hands the reader out and leaves it in the slot.
TakeReaderKeepsSlot ==
    /\ Idle
    /\ calls.TakeReader < MaxCalls
    /\ calls' = Bump("TakeReader")
    /\ IF p.Readable = NilPtr
       THEN ret' = Ret("TakeReader", ErrAlreadyTaken, NilPtr, <<>>)
       ELSE ret' = Ret("TakeReader", Nil, p.Readable, <<>>)
    /\ UNCHANGED <<gor, p, kernel, released, closePc, drains, childVars, pipeVars>>

TakeReader ==
    /\ Idle
    /\ calls.TakeReader < MaxCalls
    /\ calls' = Bump("TakeReader")
    /\ IF p.Readable = NilPtr
       THEN /\ ret' = Ret("TakeReader", ErrAlreadyTaken, NilPtr, <<>>)
            /\ p' = p
       ELSE /\ ret' = Ret("TakeReader", Nil, p.Readable, <<>>)
            /\ p' = [p EXCEPT !.Readable = NilPtr]
    /\ UNCHANGED <<gor, kernel, released, closePc, drains, childVars, pipeVars>>

TakeWriter ==
    /\ Idle
    /\ calls.TakeWriter < MaxCalls
    /\ calls' = Bump("TakeWriter")
    /\ IF p.Writable = NilPtr
       THEN /\ ret' = Ret("TakeWriter", ErrAlreadyTaken, NilPtr, <<>>)
            /\ p' = p
       ELSE /\ ret' = Ret("TakeWriter", Nil, p.Writable, <<>>)
            /\ p' = [p EXCEPT !.Writable = NilPtr]
    /\ UNCHANGED <<gor, kernel, released, closePc, drains, childVars, pipeVars>>

-----------------------------------------------------------------------------
(* windowsPty.Close, step by step: the goroutine is started, then the      *)
(* pseudoconsole and the two pipe handles are released in turn.            *)

\* CloseHandle fails on a handle the kernel no longer knows; on an open one
\* the outcome is the environment's.
CloseHandleOutcomes(h) == IF kernel[h] = "open" THEN BOOLEAN ELSE {FALSE}

Release(h) == [released EXCEPT ![h] = @ + 1]

\* if p.closed { return ErrAlreadyClosed }; go func() {...}()
CloseEnter ==
    /\ Idle
    /\ calls.Close < MaxCalls
    /\ calls' = Bump("Close")
    /\ IF p.closed
       THEN /\ ret' = Ret("Close", ErrAlreadyClosed, Nil, <<>>)
            /\ UNCHANGED <<closePc, drains>>
       ELSE /\ drains' = Append(drains, [pc |-> "read", end |-> "running"])
            /\ closePc' = "ClosePseudoConsole"
            /\ ret' = ret
    /\ UNCHANGED <<gor, p, kernel, released, childVars, pipeVars>>

\* windows.ClosePseudoConsole(p.PCon): no result is looked at.
ClosePseudoConsole ==
    /\ closePc = "ClosePseudoConsole"
    /\ kernel' = [kernel EXCEPT ![p.PCon] = "closed"]
    /\ released' = Release(p.PCon)
    /\ closePc' = "CloseRead"
    /\ UNCHANGED <<gor, p, calls, drains, ret, childVars, pipeVars>>

\* windows.CloseHandle(p.readHandle), returning its error
CloseRead ==
    /\ closePc = "CloseRead"
    /\ released' = Release(p.readHandle)
    /\ \E ok \in CloseHandleOutcomes(p.readHandle) :
         IF ok
         THEN /\ kernel' = [kernel EXCEPT ![p.readHandle] = "closed"]
              /\ closePc' = "CloseWrite"
              /\ ret' = ret
         ELSE /\ kernel' = kernel
              /\ closePc' = "idle"
              /\ ret' = Ret("Close", OsError, Nil,
                            << OsCall("ClosePseudoConsole", p.PCon),
                               OsCall("CloseHandle", p.readHandle) >>)
    /\ UNCHANGED <<gor, p, calls, drains, childVars, pipeVars>>

\* A Close that releases the write handle and forgets p.closed = true.
CloseWriteNoFlag ==
    /\ closePc = "CloseWrite"
    /\ released' = Release(p.writeHandle)
    /\ closePc' = "idle"
    /\ \E ok \in CloseHandleOutcomes(p.writeHandle) :
         LET os == << OsCall("ClosePseudoConsole", p.PCon),
                      OsCall("CloseHandle", p.readHandle),
                      OsCall("CloseHandle", p.writeHandle) >>
         IN  IF ok
             THEN /\ kernel' = [kernel EXCEPT ![p.writeHandle] = "closed"]
                  /\ ret' = Ret("Close", Nil, Nil, os)
             ELSE /\ kernel' = kernel
                  /\ ret' = Ret("Close", OsError, Nil, os)
    /\ UNCHANGED <<gor, p, calls, drains, childVars, pipeVars>>

\* windows.CloseHandle(p.writeHandle), returning its error; p.closed = true
CloseWrite ==
    /\ closePc = "CloseWrite"
    /\ released' = Release(p.writeHandle)
    /\ closePc' = "idle"
    /\ \E ok \in CloseHandleOutcomes(p.writeHandle) :
         LET os == << OsCall("ClosePseudoConsole", p.PCon),
                      OsCall("CloseHandle", p.readHandle),
                      OsCall("CloseHandle", p.writeHandle) >>
         IN  IF ok
             THEN /\ kernel' = [kernel EXCEPT ![p.writeHandle] = "closed"]
                  /\ p' = [p EXCEPT !.closed = TRUE]
                  /\ ret' = Ret("Close", Nil, Nil, os)
             ELSE /\ kernel' = kernel
                  /\ p' = p
                  /\ ret' = Ret("Close", OsError, Nil, os)
    /\ UNCHANGED <<gor, calls, drains, childVars, pipeVars>>

-----------------------------------------------------------------------------
(* The pipes, the console behind them, and the two readers of the output   *)
(* pipe: the caller's taken reader and the goroutine started by Close.     *)

Min(a, b) == IF a <= b THEN a ELSE b

\* The console is there until the pseudoconsole is closed; its ends of the
\* two pipes go with it.
ConsoleAlive == kernel[hPCon] = "open"

\* The console writes a chunk to the output pipe; after a cursor query it
\* writes nothing more until the report arrives.
ConsoleEmit(chunk) ==
    /\ ConsoleAlive
    /\ ~conWaiting
    /\ emitted < MaxEmit
    /\ Len(outPipe) + Len(chunk) <= MaxPipe
    /\ outPipe' = outPipe \o chunk
    /\ emitted' = emitted + 1
    /\ conWaiting' = (chunk = Query)
    /\ UNCHANGED <<gor, inPipe, readerLog, ret, ptyVars, childVars>>

\* windows.ReadFile(h, buf) on the output pipe: an error on a released
\* handle, the pending bytes up to the buffer's size, ERROR_BROKEN_PIPE once
\* the pipe is empty and its writer gone; with the pipe empty and the console
\* there the call does not return.
ReadFile(h, size) ==
    IF kernel[h] # "open" THEN [kind |-> "error", bytes |-> <<>>]
    ELSE IF outPipe # <<>>
         THEN [kind |-> "data", bytes |-> SubSeq(outPipe, 1, Min(Len(outPipe), size))]
    ELSE IF ~ConsoleAlive THEN [kind |-> "broken pipe", bytes |-> <<>>]
    ELSE [kind |-> "blocked", bytes |-> <<>>]

\* windowsReader.Read: n and err.
ReaderRead(r, size) ==
    LET out == ReadFile(r.read, size)
    IN  CASE out.kind = "broken pipe" -> [n |-> 0, err |-> EOF, bytes |-> <<>>]
          [] out.kind = "data"        -> [n |-> Len(out.bytes), err |-> Nil,
                                          bytes |-> out.bytes]
          [] OTHER                    -> [n |-> 0, err |-> OsError, bytes |-> <<>>]

ReadReturns(r, size) == ReadFile(r.read, size).kind # "blocked"

Consumed(n) == SubSeq(outPipe, n + 1, Len(outPipe))

\* windows.WriteFile(h, bytes) on the input pipe reaches the console when the
\* handle is open and the console there, and fails otherwise.
WriteFileOk(h) == kernel[h] = "open" /\ ConsoleAlive

\* The caller reads once from the reader TakeReader returned.
CallerRead ==
    /\ calls.TakeReader > 0
    /\ LET r == [read |-> hOutRead]
           got == ReaderRead(r, CallerBufSize)
       IN  /\ ReadReturns(r, CallerBufSize)
           /\ outPipe' = Consumed(got.n)
           /\ readerLog' = IF got.n > 0 THEN Append(readerLog, got.bytes)
                           ELSE readerLog
    /\ UNCHANGED <<gor, inPipe, conWaiting, emitted, ret, ptyVars, childVars>>

\* A goroutine that takes every chunk for something else than the query.
DrainReadNeverReplies(i) ==
    /\ i \in 1..Len(drains)
    /\ drains[i].pc = "read"
    /\ LET r == [read |-> p.readHandle]
           got == ReaderRead(r, DrainBufSize)
       IN  /\ ReadReturns(r, DrainBufSize)
           /\ outPipe' = Consumed(got.n)
           /\ drains' = [drains EXCEPT ![i] =
                IF got.err = EOF THEN [pc |-> "done", end |-> "EOF"]
                ELSE IF got.err # Nil THEN [pc |-> "done", end |-> "error"]
                ELSE @]
    /\ UNCHANGED <<gor, p, kernel, released, calls, closePc, ret, childVars,
                   inPipe, conWaiting, readerLog, emitted>>

\* A goroutine that takes the end of the stream for an empty read and reads on.
DrainReadIgnoresEOF(i) ==
    /\ i \in 1..Len(drains)
    /\ drains[i].pc = "read"
    /\ LET r == [read |-> p.readHandle]
           got == ReaderRead(r, DrainBufSize)
       IN  /\ ReadReturns(r, DrainBufSize)
           /\ outPipe' = Consumed(got.n)
           /\ drains' = [drains EXCEPT ![i] =
                IF got.err = EOF THEN @
                ELSE IF got.err # Nil THEN [pc |-> "done", end |-> "error"]
                ELSE IF got.n = 4 /\ got.bytes = Query THEN [@ EXCEPT !.pc = "write"]
                ELSE @]
    /\ UNCHANGED <<gor, p, kernel, released, calls, closePc, ret, childVars,
                   inPipe, conWaiting, readerLog, emitted>>

\* A goroutine that answers every chunk that ends with the query.
DrainReadAnswersSuffix(i) ==
    /\ i \in 1..Len(drains)
    /\ drains[i].pc = "read"
    /\ LET r == [read |-> p.readHandle]
           got == ReaderRead(r, DrainBufSize)
       IN  /\ ReadReturns(r, DrainBufSize)
           /\ outPipe' = Consumed(got.n)
           /\ drains' = [drains EXCEPT ![i] =
                IF got.err = EOF THEN [pc |-> "done", end |-> "EOF"]
                ELSE IF got.err # Nil THEN [pc |-> "done", end |-> "error"]
                ELSE IF got.n >= 4 /\ SubSeq(got.bytes, got.n - 3, got.n) = Query
                     THEN [@ EXCEPT !.pc = "write"]
                ELSE @]
    /\ UNCHANGED <<gor, p, kernel, released, calls, closePc, ret, childVars,
                   inPipe, conWaiting, readerLog, emitted>>

\* One turn of the goroutine's loop up to the test of what was read:
\*   n, err := reader.Read(buffer); if err != nil { ... break / return }
\*   if n == 4 && string(buffer[:n]) == "\x1b[6n"
DrainRead(i) ==
    /\ i \in 1..Len(drains)
    /\ drains[i].pc = "read"
    /\ LET r == [read |-> p.readHandle]
           got == ReaderRead(r, DrainBufSize)
       IN  /\ ReadReturns(r, DrainBufSize)
           /\ outPipe' = Consumed(got.n)
           /\ drains' = [drains EXCEPT ![i] =
                IF got.err = EOF THEN [pc |-> "done", end |-> "EOF"]
                ELSE IF got.err # Nil THEN [pc |-> "done", end |-> "error"]
                ELSE IF got.n = 4 /\ got.bytes = Query THEN [@ EXCEPT !.pc = "write"]
                ELSE @]
    /\ UNCHANGED <<gor, p, kernel, released, calls, closePc, ret, childVars,
                   inPipe, conWaiting, readerLog, emitted>>

\* writer.Write([]byte("\x1b[24;80R")), its result dropped; back to the read.
DrainWrite(i) ==
    /\ i \in 1..Len(drains)
    /\ drains[i].pc = "write"
    /\ IF WriteFileOk(p.writeHandle)
       THEN inPipe' = Append(inPipe, Reply) /\ conWaiting' = FALSE
       ELSE UNCHANGED <<inPipe, conWaiting>>
    /\ drains' = [drains EXCEPT ![i].pc = "read"]
    /\ UNCHANGED <<gor, p, kernel, released, calls, closePc, ret, childVars,
                   outPipe, readerLog, emitted>>

-----------------------------------------------------------------------------
(* windowsPty.SpawnCommand                                                 *)

\* Go strings as sequences of code points.
HasNUL(str) == \E i \in 1..Len(str) : str[i] = 0

\* syscall.UTF16FromString: the string with a terminating NUL, or an error
\* (the empty sequence here) when the string itself holds a NUL.
UTF16FromString(str) == IF HasNUL(str) THEN <<>> ELSE Append(str, 0)

Utf16Ok(str) == UTF16FromString(str) # <<>>

RECURSIVE JoinArgs(_, _)
\* cmd_str := cmd.Path; for _, arg := range cmd.Args[1:] { cmd_str += " " + arg }
JoinArgs(acc, args) ==
    IF args = <<>> THEN acc ELSE JoinArgs(acc \o <<32>> \o Head(args), Tail(args))

CmdLine(cmd) == JoinArgs(cmd.Path, Tail(cmd.Args))

\* The commands callers pass: a plain one, one with an argument and a
\* working directory, and three that do not encode.
Cmds ==
    { [Path |-> <<99>>, Args |-> << <<99>> >>, Env |-> <<>>, Dir |-> <<>>],
      [Path |-> <<99>>, Args |-> << <<99>>, <<97, 32, 98>> >>,
       Env |-> << <<69, 61, 49>> >>, Dir |-> <<100>>],
      [Path |-> <<99, 0>>, Args |-> << <<99, 0>> >>, Env |-> <<>>, Dir |-> <<>>],
      [Path |-> <<99>>, Args |-> << <<99>> >>, Env |-> << <<69, 0>> >>, Dir |-> <<>>],
      [Path |-> <<99>>, Args |-> << <<99>> >>, Env |-> <<>>, Dir |-> <<100, 0>>] }

\* exe, cmd_line, every entry of cmd.Env and (when set) cmd.Dir encode.
EncodingOk(cmd) ==
    /\ Utf16Ok(cmd.Path)
    /\ Utf16Ok(CmdLine(cmd))
    /\ \A i \in 1..Len(cmd.Env) : Utf16Ok(cmd.Env[i])
    /\ (cmd.Dir # <<>> => Utf16Ok(cmd.Dir))

\* The step at which SpawnCommand returns: the environment decides the four
\* OS calls, the command decides the encoding.
SpawnSteps == {"NewProcThreadAttributeList", "Update", "CreateProcess",
               "CloseHandle", "done"}

SpawnOs(step) ==
    LET all == << OsCall("NewProcThreadAttributeList", Nil),
                  OsCall("UpdateProcThreadAttribute", p.PCon),
                  OsCall("CreateProcess", p.PCon),
                  OsCall("CloseHandle", "pi.Thread") >>
        n == CASE step = "NewProcThreadAttributeList" -> 1
               [] step = "Update"                     -> 2
               [] step = "encode"                     -> 2
               [] step = "CreateProcess"              -> 3
               [] OTHER                               -> 4
    IN  SubSeq(all, 1, n)

NewProc(child, threadOpen) ==
    [ st       |-> "running",    \* the process: "running" | "exited"
      code     |-> 0,            \* its exit code once exited
      Proc     |-> child,        \* windowsChild.Proc, or "none": no Child returned
      attached |-> p.PCon,       \* the pseudoconsole it was attached to
      hOpen    |-> TRUE,         \* pi.Process is open
      thOpen   |-> threadOpen ]  \* pi.Thread is open

SpawnCommand(cmd, failAt) ==
    /\ Idle
    /\ Len(procs) < MaxProcs
    /\ LET step == IF failAt \in {"NewProcThreadAttributeList", "Update"} THEN failAt
                   ELSE IF ~EncodingOk(cmd) THEN "encode"
                   ELSE failAt
           allocated == IF step = "NewProcThreadAttributeList"
                        THEN attrLists ELSE attrLists + 1
           \* defer attrs.Delete()
           deleted   == IF step = "NewProcThreadAttributeList"
                        THEN allocated ELSE allocated - 1
       IN  /\ attrLists' = deleted
           /\ procs' = CASE step = "done" ->
                              Append(procs, NewProc("handle", FALSE))
                         [] step = "CloseHandle" ->
                              Append(procs, NewProc("none", TRUE))
                         [] OTHER -> procs
           /\ ret' = IF step = "done"
                     THEN Ret("SpawnCommand", Nil, Len(procs) + 1, SpawnOs(step))
                     ELSE Ret("SpawnCommand", OsError, Nil, SpawnOs(step))
    /\ UNCHANGED <<gor, ptyVars, pipeVars>>

-----------------------------------------------------------------------------
(* The child process itself, and windowsChild.Exited, Wait and Kill        *)

\* The process ends by itself with some exit code.
ProcExit(i, code) ==
    /\ procs[i].st = "running"
    /\ procs' = [procs EXCEPT ![i].st = "exited", ![i].code = code]
    /\ UNCHANGED <<gor, attrLists, ret, ptyVars, pipeVars>>

Children == {i \in 1..Len(procs) : procs[i].Proc # "none"}

\* GetExitCodeProcess(c.Proc): the outcomes it can have, each the error flag
\* and the status stored.  On a process handle the status is STILL_ACTIVE
\* while the process runs and the exit code afterwards.  InvalidHandle is no
\* process handle: the call fails, or, the value being the one of the
\* current-process pseudo handle, reports the caller's own process, which is
\* running.
GetExitCodeProcess(c) ==
    IF c.Proc = InvalidHandle
    THEN {[failed |-> TRUE, status |-> 0], [failed |-> FALSE, status |-> STILL_ACTIVE]}
    ELSE IF c.st = "running"
         THEN {[failed |-> FALSE, status |-> STILL_ACTIVE]}
         ELSE {[failed |-> FALSE, status |-> c.code]}

\* What Exited returns for one outcome of GetExitCodeProcess.
ExitedResult(out) ==
    IF out.failed THEN [code |-> 0, err |-> OsError]
    ELSE IF out.status = STILL_ACTIVE THEN [code |-> 0, err |-> ErrNotFinished]
    ELSE [code |-> out.status, err |-> Nil]

\* An Exited that gives the handle up once it has seen the exit code.
ExitedInvalidates(i) ==
    /\ Idle
    /\ i \in Children
    /\ \E out \in GetExitCodeProcess(procs[i]) :
         LET r == ExitedResult(out)
         IN  /\ ret' = [Ret("Exited", r.err, r.code,
                            <<OsCall("GetExitCodeProcess", procs[i].Proc)>>)
                        EXCEPT !.child = i]
             /\ procs' = IF r.err = Nil
                         THEN [procs EXCEPT ![i].Proc = InvalidHandle]
                         ELSE procs
    /\ UNCHANGED <<gor, attrLists, ptyVars, pipeVars>>

Exited(i) ==
    /\ Idle
    /\ i \in Children
    /\ \E out \in GetExitCodeProcess(procs[i]) :
         LET r == ExitedResult(out)
         IN  ret' = [Ret("Exited", r.err, r.code,
                         <<OsCall("GetExitCodeProcess", procs[i].Proc)>>)
                     EXCEPT !.child = i]
    /\ UNCHANGED <<gor, childVars, ptyVars, pipeVars>>

\* Wait returns once WaitForSingleObject does, that is once the process has
\* ended: until then the call is blocked.
Wait(i) ==
    /\ Idle
    /\ i \in Children
    /\ IF procs[i].Proc = InvalidHandle
       THEN /\ ret' = [Ret("Wait", ErrAlreadyClosed, 0, <<>>) EXCEPT !.child = i]
            /\ procs' = procs
       ELSE /\ procs[i].st = "exited"
            /\ \E out \in GetExitCodeProcess(procs[i]) :
                 LET r == ExitedResult(out)
                 IN  ret' = [Ret("Wait", r.err, r.code,
                                 << OsCall("WaitForSingleObject", procs[i].Proc),
                                    OsCall("GetExitCodeProcess", procs[i].Proc) >>)
                             EXCEPT !.child = i]
            /\ procs' = [procs EXCEPT ![i].Proc = InvalidHandle]
    /\ UNCHANGED <<gor, attrLists, ptyVars, pipeVars>>

\* TerminateProcess(c.Proc, 1): ends a running process with exit code 1 and
\* is refused on one that has ended.
Kill(i) ==
    /\ Idle
    /\ i \in Children
    /\ IF procs[i].Proc = InvalidHandle
       THEN /\ ret' = [Ret("Kill", ErrAlreadyClosed, Nil, <<>>) EXCEPT !.child = i]
            /\ procs' = procs
       ELSE LET os == <<OsCall("TerminateProcess", procs[i].Proc)>>
            IN  IF procs[i].st = "running"
                THEN /\ procs' = [procs EXCEPT ![i].st = "exited",
                                               ![i].code = KillExitCode]
                     /\ ret' = [Ret("Kill", Nil, Nil, os) EXCEPT !.child = i]
                ELSE /\ procs' = procs
                     /\ ret' = [Ret("Kill", OsError, Nil, os) EXCEPT !.child = i]
    /\ UNCHANGED <<gor, attrLists, ptyVars, pipeVars>>

-----------------------------------------------------------------------------
(* TakeReader, TakeWriter and Wait statement by statement, as goroutines    *)
(* that call at the same time run them.  No lock or atomic guards the      *)
(* fields: a read that races with a write returns the value of the moment  *)
(* or the one the goroutine has read before and kept in a register.        *)

Slot(op) == IF op = "TakeReader" THEN "Readable" ELSE "Writable"

\* A goroutine enters TakeReader, TakeWriter, or Wait on the Child i.
GoCall(g, op, i) ==
    /\ gor[g].pc = "idle"
    /\ \/ op \in {"TakeReader", "TakeWriter"} /\ i = 0
       \/ op = "Wait" /\ i \in Children
    /\ gor' = [gor EXCEPT ![g] = [@ EXCEPT !.op = op, !.pc = "check", !.child = i]]
    /\ UNCHANGED <<ptyVars, childVars, pipeVars, ret>>

\* if p.Readable == nil { return nil, ErrAlreadyTaken }
TakeCheck(g) ==
    /\ gor[g].pc = "check"
    /\ gor[g].op \in {"TakeReader", "TakeWriter"}
    /\ LET v == p[Slot(gor[g].op)]
       IN  gor' = [gor EXCEPT ![g] =
                IF v = NilPtr
                THEN [@ EXCEPT !.pc = "done", !.err = ErrAlreadyTaken]
                ELSE [@ EXCEPT !.pc = "load", !.slot = v]]
    /\ UNCHANGED <<ptyVars, childVars, pipeVars, ret>>

\* temp := p.Readable
TakeLoad(g) ==
    /\ gor[g].pc = "load"
    /\ \E v \in {gor[g].slot, p[Slot(gor[g].op)]} :
         gor' = [gor EXCEPT ![g] = [@ EXCEPT !.pc = "clear", !.temp = v]]
    /\ UNCHANGED <<ptyVars, childVars, pipeVars, ret>>

\* p.Readable = nil; return temp, nil
TakeClear(g) ==
    /\ gor[g].pc = "clear"
    /\ p' = [p EXCEPT ![Slot(gor[g].op)] = NilPtr]
    /\ gor' = [gor EXCEPT ![g] = [@ EXCEPT !.pc = "done", !.err = Nil]]
    /\ UNCHANGED <<kernel, released, calls, closePc, drains, childVars,
                   pipeVars, ret>>

\* if c.Proc == windows.InvalidHandle { return 0, ErrAlreadyClosed }
WaitCheck(g) ==
    /\ gor[g].pc = "check"
    /\ gor[g].op = "Wait"
    /\ LET h == procs[gor[g].child].Proc
       IN  gor' = [gor EXCEPT ![g] =
                IF h = InvalidHandle
                THEN [@ EXCEPT !.pc = "done", !.err = ErrAlreadyClosed]
                ELSE [@ EXCEPT !.pc = "WaitForSingleObject", !.h = h]]
    /\ UNCHANGED <<ptyVars, childVars, pipeVars, ret>>

\* windows.WaitForSingleObject(c.Proc, windows.INFINITE): returns on a
\* process handle once the process has ended; on InvalidHandle, the pseudo
\* handle of the caller's own process, it fails or does not return.
WaitForSingleObject(g) ==
    /\ gor[g].pc = "WaitForSingleObject"
    /\ \E h \in {gor[g].h, procs[gor[g].child].Proc} :
         IF h = InvalidHandle
         THEN gor' = [gor EXCEPT ![g] = [@ EXCEPT !.pc = "done", !.err = OsError]]
         ELSE /\ procs[gor[g].child].st = "exited"
              /\ gor' = [gor EXCEPT ![g] = [@ EXCEPT !.pc = "Exited"]]
    /\ UNCHANGED <<ptyVars, childVars, pipeVars, ret>>

\* code, err := c.Exited()
WaitExited(g) ==
    /\ gor[g].pc = "Exited"
    /\ \E h \in {gor[g].h, procs[gor[g].child].Proc} :
         \E out \in GetExitCodeProcess([procs[gor[g].child] EXCEPT !.Proc = h]) :
            LET r == ExitedResult(out)
            IN  gor' = [gor EXCEPT ![g] =
                    [@ EXCEPT !.pc = "invalidate", !.code = r.code, !.err = r.err]]
    /\ UNCHANGED <<ptyVars, childVars, pipeVars, ret>>

\* c.Proc = windows.InvalidHandle; return code, err
WaitInvalidate(g) ==
    /\ gor[g].pc = "invalidate"
    /\ procs' = [procs EXCEPT ![gor[g].child].Proc = InvalidHandle]
    /\ gor' = [gor EXCEPT ![g] = [@ EXCEPT !.pc = "done"]]
    /\ UNCHANGED <<attrLists, ptyVars, pipeVars, ret>>

-----------------------------------------------------------------------------
(* unixPty (src/pty_unix.go): a struct without fields, so that what each   *)
(* method returns does not depend on the calls made before.                *)

ZeroPtySize == [Rows |-> 0, Cols |-> 0, PixelWidth |-> 0, PixelHeight |-> 0]

UnixResize(size) == [err |-> Nil]
UnixGetSize      == [val |-> ZeroPtySize, err |-> Nil]
UnixTakeReader   == [val |-> NilPtr, err |-> Nil]
UnixTakeWriter   == [val |-> NilPtr, err |-> Nil]
UnixClose        == [err |-> Nil]

-----------------------------------------------------------------------------
(* The Pty's own operations, called one after the other.                   *)
Next ==
    \/ \E size \in Sizes : Resize(size)
    \/ GetSize
    \/ TakeReader
    \/ TakeWriter
    \/ CloseEnter
    \/ ClosePseudoConsole
    \/ CloseRead
    \/ CloseWrite

Spec == Init /\ [][Next]_vars

(* Spawning on the Pty and the Child's operations, called one after the    *)
(* other while the processes end by themselves.                            *)
ChildNext ==
    \/ \E cmd \in Cmds, failAt \in SpawnSteps : SpawnCommand(cmd, failAt)
    \/ \E i \in 1..Len(procs), code \in ExitCodes : ProcExit(i, code)
    \/ \E i \in 1..Len(procs) : Exited(i)
    \/ \E i \in 1..Len(procs) : Wait(i)
    \/ \E i \in 1..Len(procs) : Kill(i)

ChildSpec == Init /\ [][ChildNext]_vars

(* Goroutines that call TakeReader, TakeWriter and Wait at the same time,  *)
(* beside a caller that spawns and processes that end.                     *)
ConcNext ==
    \/ \E cmd \in Cmds, failAt \in SpawnSteps : SpawnCommand(cmd, failAt)
    \/ \E i \in 1..Len(procs), code \in ExitCodes : ProcExit(i, code)
    \/ \E g \in 1..MaxGoroutines, op \in {"TakeReader", "TakeWriter", "Wait"},
          i \in 0..MaxProcs : GoCall(g, op, i)
    \/ \E g \in 1..MaxGoroutines : TakeCheck(g)
    \/ \E g \in 1..MaxGoroutines : TakeLoad(g)
    \/ \E g \in 1..MaxGoroutines : TakeClear(g)
    \/ \E g \in 1..MaxGoroutines : WaitCheck(g)
    \/ \E g \in 1..MaxGoroutines : WaitForSingleObject(g)
    \/ \E g \in 1..MaxGoroutines : WaitExited(g)
    \/ \E g \in 1..MaxGoroutines : WaitInvalidate(g)

ConcSpec == Init /\ [][ConcNext]_vars

(* Close with everything that runs beside it: the goroutines it starts,    *)
(* the console, and a caller reading from the taken reader.                *)
CloseNext ==
    \/ TakeReader
    \/ CloseEnter
    \/ ClosePseudoConsole
    \/ CloseRead
    \/ CloseWrite
    \/ \E chunk \in {Query, Other} : ConsoleEmit(chunk)
    \/ CallerRead
    \/ \E i \in 1..MaxCalls : DrainRead(i)
    \/ \E i \in 1..MaxCalls : DrainWrite(i)

\* Nothing is pending between the console and its readers: the state in
\* which ClosePseudoConsole is sure to return.
Quiescent == ~conWaiting /\ outPipe = <<>>

\* The Go scheduler runs every goroutine that can run, and the caller's
\* thread goes on inside Close; ClosePseudoConsole is only sure to return
\* once the console has nothing pending.  The console and the caller's
\* reads are under no obligation.
CloseFairness ==
    /\ \A i \in 1..MaxCalls : WF_vars(DrainRead(i) \/ DrainWrite(i))
    /\ WF_vars(ClosePseudoConsole /\ Quiescent)
    /\ WF_vars(CloseRead)
    /\ WF_vars(CloseWrite)

CloseSpec == Init /\ [][CloseNext]_vars /\ CloseFairness

-----------------------------------------------------------------------------
(* The claims.                                                             *)

\* C1: TakeReader returns the reader on its first call and ErrAlreadyTaken on
\* every later one, TakeWriter likewise, and each slot depends on the calls
\* of its own operation alone: the reader slot is full exactly until the
\* first TakeReader, the writer slot exactly until the first TakeWriter.
C1_TakeOnce ==
    /\ ret.op = "TakeReader" =>
         /\ calls.TakeReader = 1 => ret.err = Nil /\ ret.val = Ptr([read |-> hOutRead])
         /\ calls.TakeReader > 1 => ret.err = ErrAlreadyTaken /\ ret.val = NilPtr
    /\ ret.op = "TakeWriter" =>
         /\ calls.TakeWriter = 1 => ret.err = Nil /\ ret.val = Ptr([write |-> hInWrite])
         /\ calls.TakeWriter > 1 => ret.err = ErrAlreadyTaken /\ ret.val = NilPtr
    /\ (p.Readable = NilPtr) <=> (calls.TakeReader > 0)
    /\ (p.Writable = NilPtr) <=> (calls.TakeWriter > 0)

\* C1 witness: a second TakeReader has failed while the writer is still there.
C1_Witness ==
    /\ ret.op = "TakeReader" /\ calls.TakeReader = 2 /\ ret.err = ErrAlreadyTaken
    /\ calls.TakeWriter = 0 /\ p.Writable # NilPtr

C3_WaitReturnsExitCode ==
    /\ (ret.op = "Wait" /\ ret.os # <<>>) =>
         /\ ret.err = Nil
         /\ ret.val = procs[ret.child].code
         /\ procs[ret.child].Proc = InvalidHandle
    /\ (ret.op = "Wait" /\ ret.os = <<>>) => ret.err = ErrAlreadyClosed
    /\ (ret.op = "Kill" /\ procs[ret.child].Proc = InvalidHandle) =>
         ret.err = ErrAlreadyClosed

\* C4 as stated: a Kill that succeeded leaves the Child invalidated, so that
\* the next Kill or Wait on it fails with ErrAlreadyClosed without an OS call.
C4_KillInvalidates ==
    /\ []((ret.op = "Kill" /\ ret.err = Nil) =>
            procs[ret.child].Proc = InvalidHandle)
    /\ [][ ( /\ ret.op = "Kill" /\ ret.err = Nil
             /\ ret' # ret /\ ret'.op \in {"Kill", "Wait"}
             /\ ret'.child = ret.child ) =>
           (ret'.err = ErrAlreadyClosed /\ ret'.os = <<>>) ]_vars

\* C5: a GetSize that follows a successful Resize(S) returns S, field by
\* field, and every GetSize returns the stored size with no error and
\* without an OS call.
C5_ResizeThenGetSize ==
    /\ [][ (ret.op = "Resize" /\ ret.err = Nil /\ ret'.op = "GetSize") =>
             /\ ret'.val.Rows = ret.val.Rows
             /\ ret'.val.Cols = ret.val.Cols
             /\ ret'.val.PixelWidth = ret.val.PixelWidth
             /\ ret'.val.PixelHeight = ret.val.PixelHeight ]_vars
    /\ [](ret.op = "GetSize" =>
            ret.err = Nil /\ ret.os = <<>> /\ ret.val = p.PtySize)

\* C5 witness: GetSize has returned a size with pixel fields, which only a
\* Resize can have stored.
C5_Witness ==
    /\ ret.op = "GetSize"
    /\ ret.val.PixelWidth = 640 /\ ret.val.PixelHeight = 480
    /\ ret.val.Rows = 50 /\ ret.val.Cols = 132

\* C6 as stated: on a Child that was not invalidated, Exited returns
\* ErrNotFinished exactly when the process is running, and the exit code
\* with no error once it has ended.
C6_ExitedIffRunning ==
    [][ ( /\ ret' # ret /\ ret'.op = "Exited"
          /\ procs[ret'.child].Proc # InvalidHandle ) =>
        /\ (ret'.err = ErrNotFinished) <=> (procs[ret'.child].st = "running")
        /\ procs[ret'.child].st = "exited" =>
             ret'.err = Nil /\ ret'.val = procs[ret'.child].code ]_vars

\* C7 as stated: Exited on an invalidated Child returns ErrAlreadyClosed and
\* issues no OS call.
C7_ExitedAfterInvalidation ==
    (ret.op = "Exited" /\ procs[ret.child].Proc = InvalidHandle) =>
        ret.err = ErrAlreadyClosed /\ ret.os = <<>>

\* What a failed SpawnCommand may leave behind: nothing.
Leaked(i) ==
    /\ procs[i].Proc = "none"
    /\ procs[i].st = "running" \/ procs[i].hOpen \/ procs[i].thOpen

\* C8 as stated: when SpawnCommand returns an error, no attribute list is
\* left allocated, and no process it created is left running or with its
\* process or thread handle open.
C8_SpawnFailsCleanly ==
    (ret.op = "SpawnCommand" /\ ret.err # Nil) =>
        /\ attrLists = 0
        /\ \A i \in 1..Len(procs) : ~Leaked(i)

LiveChildren ==
    {i \in Children : procs[i].st = "running" /\ procs[i].Proc # InvalidHandle}

\* C9 as stated: at most one live Child is attached to the Pty.
C9_AtMostOneLiveChild ==
    Cardinality({i \in LiveChildren : procs[i].attached = p.PCon}) <= 1

\* C10 as stated: a cursor query the console emits while Close is running
\* is eventually answered on the PTY input, and Close eventually returns.
C10_QueryAnswered ==
    /\ (closePc # "idle" /\ conWaiting) ~> ~conWaiting
    /\ (closePc # "idle") ~> Idle

\* A goroutine of Close has just read: the pipe lost bytes and the caller's
\* reader did not get them.
DrainHasRead ==
    /\ Len(outPipe') < Len(outPipe)
    /\ readerLog' = readerLog

\* Some goroutine that stood at its read now stands at its write.
DrainGoesToWrite ==
    \E i \in 1..Len(drains) : drains[i].pc = "read" /\ drains'[i].pc = "write"

\* C10 amended: when the goroutine's own read returns exactly the four bytes
\* of the query, the goroutine goes on to write the report before it reads
\* again, and the report reaches the PTY input if the write handle is still
\* open and the console still there; a read that returns anything else is
\* not answered; and once ClosePseudoConsole has returned Close returns too.
C10_DrainAnswersItsOwnRead ==
    /\ [][ DrainHasRead => (DrainGoesToWrite <=> (outPipe = Query)) ]_vars
    /\ [][ \A i \in 1..MaxCalls :
             ( /\ i \in 1..Len(drains)
               /\ drains[i].pc = "write" /\ drains'[i].pc # "write" ) =>
             IF WriteFileOk(p.writeHandle)
             THEN inPipe' = Append(inPipe, Reply) /\ ~conWaiting'
             ELSE inPipe' = inPipe /\ conWaiting' = conWaiting ]_vars
    /\ (\E i \in 1..Len(drains) : drains[i].pc = "write")
          ~> (\A i \in 1..Len(drains) : drains[i].pc # "write")
    /\ (closePc \in {"CloseRead", "CloseWrite"}) ~> Idle

\* C10 witness: while Close is running, the query was emitted, read by the
\* goroutine and answered.
C10_Witness ==
    /\ closePc # "idle"
    /\ emitted > 0 /\ ~conWaiting /\ outPipe = <<>>
    /\ inPipe = <<Reply>>
    /\ readerLog = <<>>

AllDrainsDone == \A i \in 1..Len(drains) : drains[i].pc = "done"

\* C11 as stated: Close returns whatever the goroutine does, and a goroutine
\* that was started eventually ends.
C11_DrainTerminates ==
    /\ (closePc \in {"CloseRead", "CloseWrite"}) ~> Idle
    /\ (Len(drains) > 0) ~> AllDrainsDone

\* C11 amended: no step of Close waits for a goroutine or changes one; once
\* ClosePseudoConsole has returned, Close returns and every goroutine that
\* was started ends, on the end of the stream or, the read handle released,
\* on a read error.  Until ClosePseudoConsole returns a goroutine may stay
\* blocked in its read.
C11_DrainEndsOnceConsoleClosed ==
    /\ [][ (closePc # "idle" /\ closePc' # closePc) => drains' = drains ]_vars
    /\ [](\A i \in 1..Len(drains) :
            /\ drains[i].pc = "done" <=> drains[i].end \in {"EOF", "error"}
            /\ drains[i].end = "EOF" => ~ConsoleAlive
            /\ drains[i].end = "error" => kernel[p.readHandle] = "closed")
    /\ (closePc \in {"CloseRead", "CloseWrite"}) ~> (Idle /\ ret.op = "Close")
    /\ (~ConsoleAlive) ~> AllDrainsDone

\* C11 witness: Close has returned with its handles released while the
\* goroutine it started has not yet run.
C11_Witness ==
    /\ Idle /\ ret.op = "Close" /\ ret.err = Nil
    /\ Len(drains) = 1 /\ drains[1].pc = "read"

\* C12 as stated: over the Close calls on one Pty, no handle of the Pty is
\* passed to its release call more than once and at most one goroutine is
\* started.
C12_ReleasedOnce ==
    /\ \A h \in PtyHandles : released[h] <= 1
    /\ Len(drains) <= 1

\* C13 as stated: unless the operating system refused the call, what the
\* windowsPty returned for the last call is what the unixPty returns for it:
\* the same error, the same size from GetSize, a stream from TakeReader and
\* TakeWriter exactly when the other gives one.
C13_UnixSameAsWindows ==
    (Idle /\ ret.err # OsError) =>
      /\ ret.op = "Resize" => ret.err = UnixResize(ret.val).err
      /\ ret.op = "GetSize" =>
           ret.err = UnixGetSize.err /\ ret.val = UnixGetSize.val
      /\ ret.op = "TakeReader" =>
           /\ ret.err = UnixTakeReader.err
           /\ (ret.val = NilPtr) <=> (UnixTakeReader.val = NilPtr)
      /\ ret.op = "TakeWriter" =>
           /\ ret.err = UnixTakeWriter.err
           /\ (ret.val = NilPtr) <=> (UnixTakeWriter.val = NilPtr)
      /\ ret.op = "Close" => ret.err = UnixClose.err

\* The stream on handle h is in the caller's hands.
TakenOut(h) ==
    \/ h = hOutRead /\ p.Readable = NilPtr
    \/ h = hInWrite /\ p.Writable = NilPtr

\* Who holds handle h while the kernel object behind it is there: the caller
\* through a taken stream, the Pty through its fields, a goroutine of Close
\* through the reader and the writer it builds from the Pty's fields.
Holders(h) ==
    IF kernel[h] # "open" THEN {}
    ELSE { c \in {"caller", "pty", "goroutine"} :
             \/ c = "caller" /\ TakenOut(h)
             \/ c = "pty" /\ h \in {p.readHandle, p.writeHandle}
             \/ c = "goroutine" /\ h \in {p.readHandle, p.writeHandle}
                  /\ \E i \in 1..Len(drains) : drains[i].pc # "done" }

\* C14 as stated: while a stream is in the caller's hands nobody else holds
\* its handle, and Close does not release that handle.
C14_TakenHandleNotShared ==
    \A h \in {hOutRead, hInWrite} :
        TakenOut(h) => Cardinality(Holders(h)) <= 1 /\ released[h] = 0

\* C18: the stored size changes only in a Resize that returns no error, and
\* then to the size passed, so that it is the size given to NewPty until the
\* first such Resize; a Resize that returns an error leaves every field of
\* the Pty and every handle as they were; GetSize returns the stored size.
C18_SizeIsLastApplied ==
    /\ [][ p'.PtySize # p.PtySize =>
             (ret'.op = "Resize" /\ ret'.err = Nil /\ p'.PtySize = ret'.val) ]_vars
    /\ [][ (ret' # ret /\ ret'.op = "Resize" /\ ret'.err # Nil) =>
             UNCHANGED <<p, kernel, released, drains>> ]_vars
    /\ []((ret.op = "Resize" /\ ret.err = Nil) => p.PtySize = ret.val)
    /\ [](ret.op = "GetSize" => ret.val = p.PtySize)

\* C18 witness: after a Resize was applied and the Pty closed, a Resize has
\* failed on the released console and the applied size is still stored.
C18_Witness ==
    /\ ret.op = "Resize" /\ ret.err = OsError /\ ret.val = DefaultPtySize
    /\ kernel[p.PCon] = "closed" /\ p.closed
    /\ p.PtySize.Cols = 132 /\ p.PtySize.PixelWidth = 640

\* C20 as stated: on a Pty that Close has closed, TakeReader and TakeWriter
\* return no stream and SpawnCommand returns ErrAlreadyClosed.
C20_NothingAfterClose ==
    (Idle /\ p.closed) =>
      /\ ret.op \in {"TakeReader", "TakeWriter"} =>
           ret.err # Nil /\ ret.val = NilPtr
      /\ ret.op = "SpawnCommand" => ret.err = ErrAlreadyClosed

C19_ExitedChangesNothing ==
    /\ [][ (ret' # ret /\ ret'.op = "Exited") =>
              procs' = procs /\ attrLists' = attrLists ]_vars
    /\ [][ \A i \in 1..Len(procs) :
              procs'[i].Proc # procs[i].Proc => ret'.op = "Wait" ]_vars

\* C19 witness: Exited has returned the exit code of a process that has
\* ended, and the Child still holds its process handle.
C19_Witness ==
    /\ ret.op = "Exited" /\ ret.err = Nil /\ ret.val = 3
    /\ procs[ret.child].st = "exited" /\ procs[ret.child].Proc = "handle"

\* The goroutines whose call of op (on the Child i, for Wait) has returned.
Returned(op, i) ==
    {g \in 1..MaxGoroutines :
        gor[g].op = op /\ gor[g].child = i /\ gor[g].pc = "done"}

\* C15 as stated: of the calls of TakeReader (of TakeWriter) that goroutines
\* make at the same time, at most one returns without ErrAlreadyTaken, and
\* that one returns the stream.
C15_OneTakeWins ==
    \A op \in {"TakeReader", "TakeWriter"} :
        /\ Cardinality({g \in Returned(op, 0) : gor[g].err # ErrAlreadyTaken}) <= 1
        /\ \A g \in Returned(op, 0) :
             gor[g].err # ErrAlreadyTaken => gor[g].temp # NilPtr

\* C16 as stated: of the calls of Wait that goroutines make at the same time
\* on one Child, at most one returns the exit code.
C16_OneWaitWins ==
    \A i \in 1..Len(procs) :
        Cardinality({g \in Returned("Wait", i) : gor[g].err = Nil}) <= 1

====
